---------------------------- MODULE Spec2Model ----------------------------
(***************************************************************************)
(* Model of the AbangColek fruit-slicing game: the GeminiFruitSlicer React *)
(* component (two revisions kept in src/components/GeminiFruitSlicer.tsx,  *)
(* called variant 1 and variant 2 below, and a third one in               *)
(* src/unnamed/part_002), the getSenseiAdvice client and the /api/gemini   *)
(* handler.                                                                *)
(*                                                                         *)
(* React state is modelled by the value a state setter last stored; the    *)
(* values an effect's closures captured are kept apart, named eff..., and are *)
(* renewed only by Commit, when the effect's dependency list has changed.  *)
(*                                                                         *)
(* Units.  timeScale is counted in 1/50 (50 is 1.0); a fruit's vy in       *)
(* 1/2500 px per frame and its y in 1/125000 px below the canvas bottom;   *)
(* a particle's or popup's life and wait in 1/100000.  With these units    *)
(* every product the code forms is an integer.                             *)
(***************************************************************************)
EXTENDS Integers, Sequences, FiniteSets, TLC

\* ------------------------------------------------------------ constants
GRAVITY_V == 19
INITIAL_SPAWN_INTERVAL == 1100
BLADE_TRAIL_LIMIT == 8
MAX_PARTICLES == 120
GAME_DURATION == 60
MAX_LIVES == 3
COUNTDOWN_FROM == 3

FruitTypes == {"guava", "mango", "pineapple", "sweet_mango", "bomb"}

FRUIT_CONFIG ==
  [t \in FruitTypes |->
     CASE t = "guava"       -> [points |-> 10,   radius |-> 42, label |-> "Guava"]
       [] t = "mango"       -> [points |-> 20,   radius |-> 48, label |-> "Mango"]
       [] t = "pineapple"   -> [points |-> 50,   radius |-> 60, label |-> "Pineapple"]
       [] t = "sweet_mango" -> [points |-> 150,  radius |-> 52, label |-> "Sweet Mango"]
       [] t = "bomb"        -> [points |-> -100, radius |-> 38, label |-> "Spicy Bottle"]]

TS_ONE == 50
Y_UNIT == 125000
LIFE_ONE == 100000

\* ------------------------------------------------------------ bounds
MaxFrames == 2
MaxSpawns == 2
MaxRequests == 2
MaxTicks == 1

\* ------------------------------------------------------------ state
VARIABLES
  variant,            \* the revision of the component that is running: 1 or 2 of
                      \* GeminiFruitSlicer.tsx, or 3, the listing of ARCHITECTURE.md
  mounted,            \* the component is mounted
  gameState, countdown, timeLeft,
  senseiHint, isAiThinking, priorityFruit,
  isDestroyed, gameActive, captureRequestRef,
  scoreRef, livesRef, levelRef, lastAnalysisScore,
  fruits, particles, xpPoints, bladeTrail, touchActive,
  timeScale, hitstopTimers,
  effGameState, effIsAiThinking, effTimeLeft, effCountdown,
  inflight,           \* the getSenseiAdvice calls that have not completed
  fuel,               \* what is left of the bounds of this run
  last                \* the step just taken and its inputs

reactVars == <<gameState, countdown, timeLeft, senseiHint, isAiThinking, priorityFruit>>
refVars == <<isDestroyed, gameActive, captureRequestRef, scoreRef, livesRef, levelRef,
             lastAnalysisScore, fruits, particles, xpPoints, bladeTrail, touchActive,
             timeScale, hitstopTimers>>
effVars == <<effGameState, effIsAiThinking, effTimeLeft, effCountdown>>
vars == <<variant, mounted, reactVars, refVars, effVars, inflight, fuel, last>>

NULL == "null"
\* The countdown state is null or a number: the empty sequence or <<n>>.
NoCountdown == <<>>
Counting(n) == <<n>>
INITIAL_HINT == "Sensei sedang mengamati..."

Max(a, b) == IF a > b THEN a ELSE b
Min(a, b) == IF a < b THEN a ELSE b


\* ------------------------------------------------------------ random draws
\* The (typeChance, roll) pairs of Math.random() draws, in 1/1000, that a session
\* makes: a bottle from the third level on and otherwise a guava, or a sweet mango.
SpawnRandoms == {<<0, 0>>, <<999, 999>>}
\* ceil(Math.random() * 15): the iterations createExplosion adds to its base count.
ExplosionExtras == {0, 15}
\* Math.random() * 0.15 of each particle of a batch: none, or alternately 0 and
\* the largest draw.
WaitPatterns == {"none", "alternate"}
WAIT_MAX == 14999
\* The direction of the last trail segment, "right" or "down": sin of
\* Math.atan2(dy, dx).
SinOf(dir) == IF dir = "down" THEN 1 ELSE 0

\* ------------------------------------------------------------ spawnFruit
\* A threshold without the grace levels.
bombThresholdNoGrace(currentLevel) == Min(350, 50 + (currentLevel - 3) * 15)

\* bombThreshold of spawnFruit, in 1/1000: 0 below level 3.
bombThreshold(currentLevel) ==
  IF currentLevel >= 3 THEN Min(350, 50 + (currentLevel - 3) * 15) ELSE 0

spawnType(currentLevel, typeChance, roll) ==
  IF typeChance < bombThreshold(currentLevel) THEN "bomb"
  ELSE LET tier == Min(currentLevel, 15)
           sweetThreshold == 940 - tier * 5
           pineappleThreshold == 820 - tier * 10
           mangoThreshold == 450 - tier * 10
       IN IF roll > sweetThreshold THEN "sweet_mango"
          ELSE IF roll > pineappleThreshold THEN "pineapple"
          ELSE IF roll > mangoThreshold THEN "mango"
          ELSE "guava"

\* spawnFruit with Math.random() = 0 in baseVy: vy = -(16 + 1.2 * level), y = height + 80.
spawnFruit(fs, currentLevel, typeChance, roll, id) ==
  Append(fs, [id |-> id,
              type |-> spawnType(currentLevel, typeChance, roll),
              y |-> 80 * Y_UNIT,
              vy |-> -(40000 + 3000 * currentLevel),
              isSliced |-> FALSE])

\* A spawn rate without its floor.
spawnRateNoFloor(lvl) == INITIAL_SPAWN_INTERVAL - lvl * 60

\* Math.max(300, INITIAL_SPAWN_INTERVAL - level * 60)
spawnRate(lvl) == Max(300, INITIAL_SPAWN_INTERVAL - lvl * 60)

\* ------------------------------------------------------------ createExplosion
WaitOf(pattern, i) == IF pattern = "alternate" /\ i % 2 = 1 THEN WAIT_MAX ELSE 0

\* The particle pushed by iteration i of the loop.
newParticle(i, isBomb, pattern) ==
  [life |-> LIFE_ONE, wait |-> IF isBomb THEN 0 ELSE WaitOf(pattern, i)]

\* An iteration that pop()s the newest particle of a full list instead.
pushParticleLifo(ps, p) ==
  Append(IF Len(ps) >= MAX_PARTICLES THEN SubSeq(ps, 1, Len(ps) - 1) ELSE ps, p)

\* One iteration of the loop of createExplosion: shift() the oldest particle when
\* the list holds MAX_PARTICLES or more, then push.
pushParticle(ps, p) ==
  Append(IF Len(ps) >= MAX_PARTICLES THEN Tail(ps) ELSE ps, p)

\* Iterations lo..hi of the loop, in order (the range is halved to keep the
\* evaluation shallow).
RECURSIVE pushParticles(_, _, _, _, _)
pushParticles(ps, lo, hi, isBomb, pattern) ==
  IF lo > hi THEN ps
  ELSE IF lo = hi THEN pushParticle(ps, newParticle(lo, isBomb, pattern))
  ELSE LET mid == (lo + hi) \div 2 IN
       CHOOSE r \in {pushParticles(half, mid + 1, hi, isBomb, pattern) :
                      half \in {pushParticles(ps, lo, mid, isBomb, pattern)}} : TRUE

\* An explosion of a bottle that is no larger than that of a fruit.
createExplosionAlike(ps, isBomb, extra, pattern) ==
  pushParticles(ps, 0, 30 + extra - 1, isBomb, pattern)

\* createExplosion: (isBomb ? 50 : 30) + Math.random() * 15 iterations.
createExplosion(ps, isBomb, extra, pattern) ==
  pushParticles(ps, 0, (IF isBomb THEN 50 ELSE 30) + extra - 1, isBomb, pattern)

\* ------------------------------------------------------------ physics
\* Array.prototype.filter with the verdict of each index given.
SelectSeqKeep(s, keep) ==
  LET tagged == [i \in DOMAIN s |-> <<s[i], keep[i]>>]
      kept == SelectSeq(tagged, LAMBDA t : t[2])
  IN [i \in DOMAIN kept |-> kept[i][1]]

\* One fruit's Euler step.
moveFruit(f, ts) == [f EXCEPT !.y = f.y + f.vy * ts, !.vy = f.vy + GRAVITY_V * ts]

\* A fruit after k frames of the fruit loop at the full time scale, none of which
\* removed it: y has gained vy, vy + G, .., vy + (k - 1) G, and vy has gained k G.
flight(f, k) ==
  [f EXCEPT !.y = f.y + k * f.vy * TS_ONE
                  + GRAVITY_V * TS_ONE * TS_ONE * ((k * (k - 1)) \div 2),
            !.vy = f.vy + k * GRAVITY_V * TS_ONE]

\* The fruit loop of a frame; bound is the distance below the canvas, in px.
updateFruits(fs, ts, bound) ==
  LET moved == [i \in DOMAIN fs |-> moveFruit(fs[i], ts)]
  IN SelectSeqKeep(moved, [i \in DOMAIN fs |-> ~(moved[i].y > bound * Y_UNIT)])

\* One particle's step in the loop of onResults (variant 1).
stepParticle1(p, ts) ==
  IF p.wait > 0 THEN [p EXCEPT !.wait = @ - 30 * ts] ELSE [p EXCEPT !.life = @ - 60 * ts]

\* The particle loop of onResults (variant 1): step, then splice when life <= 0.
updateParticles1(ps, ts) ==
  SelectSeq([i \in DOMAIN ps |-> stepParticle1(ps[i], ts)], LAMBDA p : p.life > 0)

\* One particle's step in the loop of updatePhysics (variant 2).
stepParticle2(p, dt) ==
  IF p.wait > 0 THEN [p EXCEPT !.wait = @ - 100 * dt] ELSE [p EXCEPT !.life = @ - 30 * dt]

\* The particle loop of updatePhysics (variant 2): a waiting particle is stepped
\* and skipped (continue), any other is stepped and spliced when life <= 0.
updateParticles2(ps, dt) ==
  LET stepped == [i \in DOMAIN ps |-> [now |-> stepParticle2(ps[i], dt),
                                        waited |-> ps[i].wait > 0]]
      kept == SelectSeq(stepped, LAMBDA t : t.waited \/ t.now.life > 0)
  IN [i \in DOMAIN kept |-> kept[i].now]

\* The score popups; step is the life lost per frame at timeScale 1, in 1/100000 / 50.
updateXp(xs, ts, step) ==
  LET moved == [i \in DOMAIN xs |-> [xs[i] EXCEPT !.life = @ - step * ts]]
  IN SelectSeqKeep(moved, [i \in DOMAIN xs |-> moved[i].life > 0])


\* ------------------------------------------------------------ collisions
\* The simulation state a frame works on; ended holds what score, lives, level
\* and the number of particles were when the frame called setGameState('GAMEOVER')
\* for the first time, if it did, and cues the number of calls of
\* soundManager.playGameOver the frame has made.
Sim == [fruits |-> fruits, particles |-> particles, xpPoints |-> xpPoints,
        score |-> scoreRef, lives |-> livesRef, level |-> levelRef,
        timeScale |-> timeScale, gameActive |-> gameActive, gameState |-> gameState,
        capture |-> captureRequestRef, lastAnalysisScore |-> lastAnalysisScore,
        hitstopTimers |-> hitstopTimers, ended |-> <<>>, cues |-> 0]

Snapshot(score, lives, level, ps) ==
  <<[score |-> score, lives |-> lives, level |-> level, particles |-> Len(ps)]>>

\* Math.floor(score / 1500) + 1 (variant 1) and 1 + Math.floor(score / 300) (variant 2)
levelFor1(score) == (score \div 1500) + 1
levelFor2(score) == 1 + (score \div 300)

\* A level-up check without its comparison: the level follows the score down.
levelFollowsScore(level, score) == levelFor1(score)

\* The level-up check: the level is raised to the level of the score, never lowered.
levelUp1(level, score) ==
  LET nl == levelFor1(score) IN IF nl > level THEN nl ELSE level

levelUp2(level, score) ==
  LET nextLevel == levelFor2(score) IN IF nextLevel > level THEN nextLevel ELSE level

\* A forEach body that does not look at isSliced.
reachesHitAgain(f, touched) == f.id \in touched

\* Whether the forEach body goes on to a fruit: it is not sliced, and its test
\* against the segment succeeds (its id is in touched).
reachesHit(f, touched) == ~f.isSliced /\ f.id \in touched

\* A score that counts every hit twice.
addScoreTwice(score, pts) == Max(0, score + 2 * pts)

\* scoreRef.current = Math.max(0, scoreRef.current + pts)
addScore(score, pts) == Max(0, score + pts)

\* The body of the forEach of onResults (variant 1) for fruit i.
hitFruit1(S, i, in) ==
  LET f == S.fruits[i] IN
  IF ~reachesHit(f, in.touched) THEN S
  ELSE
    LET pts == FRUIT_CONFIG[f.type].points
        isBomb == f.type = "bomb"
        lives1 == IF isBomb THEN S.lives - 1 ELSE S.lives
        over == isBomb /\ lives1 <= 0
        score1 == addScore(S.score, pts)
    IN [S EXCEPT
          !.fruits[i].isSliced = TRUE,
          !.lives = lives1,
          !.gameActive = IF over THEN FALSE ELSE @,
          !.gameState = IF over THEN "GAMEOVER" ELSE @,
          !.ended = IF over /\ @ = <<>>
                    THEN Snapshot(S.score, lives1, S.level, S.particles) ELSE @,
          !.cues = IF over THEN @ + 1 ELSE @,
          !.timeScale = IF isBomb THEN @ ELSE 4,
          !.score = score1,
          !.xpPoints = Append(@, [value |-> pts, life |-> LIFE_ONE]),
          !.level = levelUp1(S.level, score1),
          !.particles = createExplosion(S.particles, isBomb, in.extra, in.pattern)]

\* The body of the forEach of checkCollisions (variant 2).
hitFruit2(S, i, in) ==
  LET f == S.fruits[i] IN
  IF ~reachesHit(f, in.touched) THEN S
  ELSE
    LET isBomb == f.type = "bomb"
        points == FRUIT_CONFIG[f.type].points
        score1 == IF isBomb THEN S.score ELSE S.score + points
        trigger == ~isBomb /\ (f.type = "sweet_mango" \/ score1 - S.lastAnalysisScore >= 500)
    IN [S EXCEPT
          !.fruits[i].isSliced = TRUE,
          !.fruits[i].vy = 5000 * SinOf(in.dir),
          !.particles = createExplosion(S.particles, isBomb, in.extra, in.pattern),
          !.lives = IF isBomb THEN Max(0, @ - 1) ELSE @,
          !.timeScale = IF isBomb THEN 5 ELSE @,
          !.hitstopTimers = IF isBomb THEN @ + 1 ELSE @,
          !.score = score1,
          !.level = IF isBomb THEN @ ELSE levelUp2(S.level, score1),
          !.xpPoints = IF isBomb THEN @ ELSE Append(@, [value |-> points, life |-> LIFE_ONE]),
          !.capture = IF trigger THEN TRUE ELSE @,
          !.lastAnalysisScore = IF trigger THEN score1 ELSE @]

\* fruits.current.forEach, in list order.
RECURSIVE forEachFruit1(_, _, _)
forEachFruit1(S, i, in) ==
  IF i > Len(S.fruits) THEN S
  ELSE CHOOSE R \in {forEachFruit1(T, i + 1, in) : T \in {hitFruit1(S, i, in)}} : TRUE

RECURSIVE forEachFruit2(_, _, _)
forEachFruit2(S, i, in) ==
  IF i > Len(S.fruits) THEN S
  ELSE CHOOSE R \in {forEachFruit2(T, i + 1, in) : T \in {hitFruit2(S, i, in)}} : TRUE

\* checkCollisions (variant 2): nothing with fewer than two trail points.
checkCollisions(S, trail, in) ==
  IF Len(trail) < 2 THEN S ELSE forEachFruit2(S, 1, in)

\* updatePhysics (variant 2): fruits, particles, popups, then the game-over check.
updatePhysics(S) ==
  LET dt == S.timeScale
      over == S.lives <= 0 /\ S.gameActive
      particles1 == updateParticles2(S.particles, dt)
  IN [S EXCEPT
        !.fruits = updateFruits(S.fruits, dt, 100),
        !.particles = particles1,
        !.ended = IF over THEN Snapshot(S.score, S.lives, S.level, particles1) ELSE @,
        !.xpPoints = updateXp(S.xpPoints, dt, 40),
        !.gameActive = IF over THEN FALSE ELSE @,
        !.gameState = IF over THEN "GAMEOVER" ELSE @,
        !.cues = IF over THEN @ + 1 ELSE @,
        !.capture = IF over THEN TRUE ELSE @]


\* ------------------------------------------------------------ /api/gemini
\* JSON values: a string, an object with or without message and priorityFruit
\* (NULL: the key is absent), a number, null.
JString(text) == [tag |-> "string", str |-> text, message |-> NULL, priorityFruit |-> NULL]
JObject(msg, pf) == [tag |-> "object", str |-> "", message |-> msg, priorityFruit |-> pf]
JNumber == [tag |-> "number", str |-> "", message |-> NULL, priorityFruit |-> NULL]
JNull == [tag |-> "null", str |-> "", message |-> NULL, priorityFruit |-> NULL]

ADVICE == "Concentrate on the Golden Mango!"
PROSE == "Slice faster"

JsonValues ==
  {JString(""), JString(PROSE), JObject(NULL, NULL), JObject("", NULL),
   JObject(ADVICE, NULL), JObject(ADVICE, "mango"), JNumber, JNull}

\* What ai.models.generateContent comes to: it throws, or it yields a response
\* whose text is absent, is not JSON, or is the serialisation of a JSON value.
ModelThrows == [throws |-> TRUE, raw |-> "", parses |-> FALSE, value |-> JNull]
ModelText(raw) == [throws |-> FALSE, raw |-> raw, parses |-> FALSE, value |-> JNull]
ModelJson(v) == [throws |-> FALSE, raw |-> "json", parses |-> TRUE, value |-> v]
ModelOutcomes == {ModelThrows, ModelText(""), ModelText(PROSE)} \cup {ModelJson(v) : v \in JsonValues}

\* An HTTP response: status, whether the body is JSON, whether it has the key
\* result, and the value of that key.
Response(status, json, enveloped, value) ==
  [status |-> status, json |-> json, enveloped |-> enveloped, value |-> value]

\* A handler that calls the model without looking for the API key.
handlerNoKeyCheck(method, imageBase64, apiKey, model) ==
  IF method # "POST" THEN Response(405, TRUE, FALSE, JObject(NULL, NULL))
  ELSE IF imageBase64 = "" THEN Response(400, TRUE, FALSE, JObject(NULL, NULL))
  ELSE IF model.throws THEN Response(500, TRUE, FALSE, JObject(NULL, NULL))
  ELSE LET raw == model.raw
           parsed == IF model.parses THEN model.value ELSE JNull
       IN Response(200, TRUE, TRUE, IF parsed.tag # "null" THEN parsed ELSE JString(raw))

\* handler of src/api/gemini.ts.
handler(method, imageBase64, apiKey, model) ==
  IF method # "POST" THEN Response(405, TRUE, FALSE, JObject(NULL, NULL))
  ELSE IF imageBase64 = "" THEN Response(400, TRUE, FALSE, JObject(NULL, NULL))
  ELSE IF ~apiKey THEN Response(500, TRUE, FALSE, JObject(NULL, NULL))
  ELSE IF model.throws THEN Response(500, TRUE, FALSE, JObject(NULL, NULL))
  ELSE LET raw == model.raw
           parsed == IF model.parses THEN model.value ELSE JNull
       IN Response(200, TRUE, TRUE, IF parsed.tag # "null" THEN parsed ELSE JString(raw))

\* ------------------------------------------------------------ getSenseiAdvice
\* What the fetch of /api/gemini comes to: it throws, or it yields a response.
Fetched(resp) == [throws |-> FALSE, resp |-> resp]
FetchThrows == [throws |-> TRUE, resp |-> Response(0, FALSE, FALSE, JNull)]

\* The network between the shim and the handler: the handler's response is
\* delivered, replaced by a 200 page that is not JSON, or the fetch fails.
NetOutcomes == {"delivers", "garbles", "throws"}
fetch(net, imageBase64, apiKey, model) ==
  IF net = "throws" THEN FetchThrows
  ELSE IF net = "garbles" THEN Fetched(Response(200, FALSE, FALSE, JNull))
  ELSE Fetched(handler("POST", imageBase64, apiKey, model))

Hint(msg) == [message |-> msg, priorityFruit |-> NULL]

\* JavaScript truthiness of result.message.
Truthy(msg) == msg # NULL /\ msg # ""

\* getSenseiAdvice of src/services/geminiService.ts: the hint its promise resolves to.
getSenseiAdvice(fetched) ==
  IF fetched.throws THEN Hint("Sensei fetch failed.")
  ELSE LET resp == fetched.resp IN
       IF ~(resp.status >= 200 /\ resp.status <= 299) THEN Hint("Sensei unavailable.")
       ELSE IF ~resp.json THEN Hint("Sensei fetch failed.")
       ELSE LET result == IF resp.enveloped /\ resp.value.tag # "null"
                          THEN resp.value
                          ELSE IF resp.enveloped THEN JObject(NULL, NULL) ELSE resp.value
            IN IF result.tag = "object" /\ Truthy(result.message)
               THEN Hint(result.message)
               ELSE Hint(IF result.tag = "string" THEN result.str ELSE "No advice")

\* getSenseiAdvice of src/unnamed/part_001, which calls the SDK itself.
getSenseiAdviceSdk(apiKey, model) ==
  IF ~apiKey THEN Hint("Sensei lost connection (Missing API Key).")
  ELSE IF model.throws THEN Hint("Sensei is observing your spirit.")
  ELSE LET parses == IF model.raw = "" THEN TRUE ELSE model.parses
           json == IF model.raw = "" THEN JObject(NULL, NULL) ELSE model.value
       IN IF ~parses \/ json.tag = "null"
          THEN Hint("Your technique is evolving. Stay focused.")
          ELSE [message |-> IF json.tag = "object" /\ Truthy(json.message)
                            THEN json.message ELSE "Keep slicing!",
                priorityFruit |-> json.priorityFruit]

\* The fetch outcomes the component specifications draw from.
SessionOutcomes ==
  {FetchThrows, Fetched(Response(200, TRUE, TRUE, JObject(ADVICE, "mango")))}

\* ------------------------------------------------------------ performAiAnalysis
\* activeData of performAiAnalysis
activeData1(fs) ==
  LET keep == SelectSeqKeep(fs, [i \in DOMAIN fs |-> ~fs[i].isSliced])
  IN [i \in DOMAIN keep |-> [type |-> keep[i].type, y |-> keep[i].y]]

activeData2(fs) ==
  LET keep == SelectSeqKeep(fs, [i \in DOMAIN fs |-> ~fs[i].isSliced /\ fs[i].type # "bomb"])
  IN [i \in DOMAIN keep |-> [type |-> FRUIT_CONFIG[keep[i].type].label, y |-> keep[i].y]]

\* Whether performAiAnalysis gets past its guard and calls getSenseiAdvice.
analysisStarts(active, destroyed) == active /\ ~destroyed

\* ------------------------------------------------------------ trail
\* A trail that is never shortened.
pushTrailNoShift(trail, hp) == Append(trail, hp)

\* push(hp), then shift() when the length is above BLADE_TRAIL_LIMIT.
pushTrail(trail, hp) ==
  LET t == Append(trail, hp) IN IF Len(t) > BLADE_TRAIL_LIMIT THEN Tail(t) ELSE t

HandPoint == 1


\* ------------------------------------------------------------ construction
\* The step just taken: the handler, the phase it ran in, the fruits its segment
\* test succeeded on, those of them that were sliced already, whether it called
\* getSenseiAdvice, whether the fetch it completes threw, and how many times it
\* called soundManager.playGameOver.
Step(op, touched) ==
  [op |-> op, phase |-> gameState, touched |-> touched, resliced |-> {},
   dispatched |-> FALSE, threw |-> FALSE, ended |-> <<>>, cues |-> 0]

Fuel(frames, spawns, requests, ticks) ==
  [frames |-> frames, spawns |-> spawns, requests |-> requests, ticks |-> ticks]

\* The component after its first render and the first run of its effects, but
\* for the particle list.
Built(v) ==
  /\ variant = v
  /\ mounted = TRUE
  /\ gameState = "START" /\ countdown = NoCountdown /\ timeLeft = GAME_DURATION
  /\ senseiHint = INITIAL_HINT /\ isAiThinking = FALSE /\ priorityFruit = NULL
  /\ isDestroyed = FALSE /\ gameActive = FALSE /\ captureRequestRef = FALSE
  /\ scoreRef = 0 /\ livesRef = MAX_LIVES /\ levelRef = 1 /\ lastAnalysisScore = 0
  /\ fruits = <<>> /\ xpPoints = <<>> /\ bladeTrail = <<>>
  /\ touchActive = FALSE
  /\ timeScale = TS_ONE /\ hitstopTimers = 0
  /\ effGameState = "START" /\ effIsAiThinking = FALSE
  /\ effTimeLeft = GAME_DURATION /\ effCountdown = NoCountdown
  /\ inflight = <<>>

Constructed(v) == Built(v) /\ particles = <<>> /\ last = Step("init", {})

\* ------------------------------------------------------------ state machine
\* Every effect has run for the state as it is now.
Committed ==
  /\ effGameState = gameState
  /\ effCountdown = countdown
  /\ (variant = 2 => effTimeLeft = timeLeft)

\* A start button that is rendered in every phase.
startCountdownAnywhere ==
  /\ mounted /\ Committed
  /\ gameState' = "COUNTDOWN"
  /\ countdown' = Counting(COUNTDOWN_FROM)
  /\ last' = Step("startCountdown", {})
  /\ UNCHANGED <<variant, mounted, timeLeft, senseiHint, isAiThinking, priorityFruit,
                 refVars, effVars, inflight, fuel>>

\* startCountdown, the onClick of the start and the play-again buttons, which are
\* rendered in START and in GAMEOVER.
startCountdown ==
  /\ mounted /\ Committed
  /\ gameState \in {"START", "GAMEOVER"}
  /\ gameState' = "COUNTDOWN"
  /\ countdown' = Counting(COUNTDOWN_FROM)
  /\ last' = Step("startCountdown", {})
  /\ UNCHANGED <<variant, mounted, timeLeft, senseiHint, isAiThinking, priorityFruit,
                 refVars, effVars, inflight, fuel>>

\* A countdown that stays at 1.
countdownTickStuck ==
  /\ mounted /\ Committed
  /\ effGameState = "COUNTDOWN" /\ effCountdown # NoCountdown /\ effCountdown[1] > 0
  /\ countdown' = Counting(IF effCountdown[1] > 1 THEN effCountdown[1] - 1 ELSE 1)
  /\ last' = Step("countdownTick", {})
  /\ UNCHANGED <<variant, mounted, gameState, timeLeft, senseiHint, isAiThinking,
                 priorityFruit, refVars, effVars, inflight, fuel>>

\* The timeout of the countdown effect: setCountdown(countdown - 1), with the
\* countdown the effect captured.
countdownTick ==
  /\ mounted /\ Committed
  /\ effGameState = "COUNTDOWN" /\ effCountdown # NoCountdown /\ effCountdown[1] > 0
  /\ countdown' = Counting(effCountdown[1] - 1)
  /\ last' = Step("countdownTick", {})
  /\ UNCHANGED <<variant, mounted, gameState, timeLeft, senseiHint, isAiThinking,
                 priorityFruit, refVars, effVars, inflight, fuel>>

\* A countdown effect that does not look at the phase.
callsStartGameInAnyPhase(state, cd) == cd # NoCountdown /\ cd[1] = 0

\* Whether the countdown effect calls startGame: the phase is COUNTDOWN and the
\* countdown is a number that is not above 0.
callsStartGame(state, cd) == state = "COUNTDOWN" /\ cd # NoCountdown /\ cd[1] = 0

\* A render whose effects run: the cleanups of the effects whose dependencies
\* changed, then their bodies in the order of declaration.  The countdown effect
\* calls startGame when the countdown it sees is 0.  The main effect of variant 3
\* has no dependencies: it keeps the timeLeft of the first render.
Commit ==
  /\ mounted /\ ~Committed
  /\ LET stateChanged == effGameState # gameState
         timeChanged == effTimeLeft # timeLeft
         starts == callsStartGame(gameState, countdown)
     IN /\ effGameState' = gameState
        /\ effCountdown' = countdown
        /\ effTimeLeft' = IF variant = 3 THEN effTimeLeft ELSE timeLeft
        /\ effIsAiThinking' = IF stateChanged THEN isAiThinking ELSE effIsAiThinking
        /\ isDestroyed' = IF variant = 1 THEN (IF stateChanged THEN FALSE ELSE isDestroyed)
                          ELSE IF stateChanged THEN FALSE
                          ELSE IF timeChanged /\ variant = 2 THEN TRUE ELSE isDestroyed
        /\ IF starts
           THEN \* startGame
                /\ scoreRef' = 0 /\ livesRef' = MAX_LIVES /\ levelRef' = 1
                /\ timeLeft' = GAME_DURATION
                /\ fruits' = <<>> /\ particles' = <<>> /\ xpPoints' = <<>>
                /\ gameActive' = TRUE
                /\ lastAnalysisScore' = IF variant = 2 THEN 0 ELSE lastAnalysisScore
                /\ gameState' = "PLAYING"
                /\ timeScale' = TS_ONE
                /\ last' = Step("startGame", {})
           ELSE /\ UNCHANGED <<scoreRef, livesRef, levelRef, timeLeft, fruits, particles,
                               xpPoints, gameActive, lastAnalysisScore, gameState, timeScale>>
                /\ last' = Step("commit", {})
  /\ UNCHANGED <<variant, mounted, countdown, senseiHint, isAiThinking, priorityFruit,
                 captureRequestRef, bladeTrail, touchActive, hitstopTimers, inflight, fuel>>

\* The component is removed: every effect's cleanup runs.
Unmount ==
  /\ mounted /\ Committed
  /\ mounted' = FALSE
  /\ isDestroyed' = TRUE
  /\ last' = Step("unmount", {})
  /\ UNCHANGED <<variant, reactVars, gameActive, captureRequestRef, scoreRef, livesRef,
                 levelRef, lastAnalysisScore, fruits, particles, xpPoints, bladeTrail,
                 touchActive, timeScale, hitstopTimers, effVars, inflight, fuel>>


\* ------------------------------------------------------------ timers
\* The interval of the timer effect (variant 1), set while the effect's
\* gameState is PLAYING: setTimeLeft(p => ...).
timerInterval1 ==
  /\ variant = 1 /\ mounted /\ Committed
  /\ effGameState = "PLAYING"
  /\ IF timeLeft <= 1
     THEN /\ gameActive' = FALSE
          /\ gameState' = "GAMEOVER"
          /\ timeLeft' = 0
     ELSE /\ timeLeft' = timeLeft - 1
          /\ UNCHANGED <<gameActive, gameState>>
  /\ last' = [Step("timerTick", {}) EXCEPT !.cues = IF timeLeft <= 1 THEN 1 ELSE 0]
  /\ UNCHANGED <<variant, mounted, countdown, senseiHint, isAiThinking, priorityFruit,
                 isDestroyed, captureRequestRef, scoreRef, livesRef, levelRef,
                 lastAnalysisScore, fruits, particles, xpPoints, bladeTrail, touchActive,
                 timeScale, hitstopTimers, effVars, inflight>>

timerTick1 ==
  /\ fuel.ticks > 0
  /\ timerInterval1
  /\ fuel' = [fuel EXCEPT !.ticks = @ - 1]

\* timerInterval of the main effect (variants 2 and 3), with the timeLeft the
\* effect captured; the model stops counting MaxOvertime seconds below 0.
MaxOvertime == 2
timerInterval2 ==
  /\ variant \in {2, 3} /\ mounted /\ Committed
  /\ gameActive
  /\ timeLeft > -MaxOvertime
  /\ IF effTimeLeft > 0
     THEN /\ timeLeft' = timeLeft - 1
          /\ UNCHANGED <<gameActive, gameState, captureRequestRef>>
     ELSE /\ gameActive' = FALSE
          /\ gameState' = "GAMEOVER"
          /\ captureRequestRef' = IF variant = 2 THEN TRUE ELSE captureRequestRef
          /\ UNCHANGED timeLeft
  /\ last' = [Step("timerTick", {}) EXCEPT !.cues = IF effTimeLeft > 0 THEN 0 ELSE 1]
  /\ UNCHANGED <<variant, mounted, countdown, senseiHint, isAiThinking, priorityFruit,
                 isDestroyed, scoreRef, livesRef, levelRef,
                 lastAnalysisScore, fruits, particles, xpPoints, bladeTrail, touchActive,
                 timeScale, hitstopTimers, effVars, inflight>>

timerTick2 ==
  /\ fuel.ticks > 0
  /\ timerInterval2
  /\ fuel' = [fuel EXCEPT !.ticks = @ - 1]

\* The 400 ms timeout a bomb hit sets (variant 2); unmounting does not clear it.
hitstopTimeout ==
  /\ variant = 2
  /\ hitstopTimers > 0
  /\ hitstopTimers' = hitstopTimers - 1
  /\ timeScale' = IF ~isDestroyed THEN TS_ONE ELSE timeScale
  /\ last' = Step("hitstopTimeout", {})
  /\ UNCHANGED <<variant, mounted, reactVars, isDestroyed, gameActive, captureRequestRef,
                 scoreRef, livesRef, levelRef, lastAnalysisScore, fruits, particles,
                 xpPoints, bladeTrail, touchActive, effVars, inflight, fuel>>

\* ------------------------------------------------------------ advice completes
RemoveAt(q, i) == SubSeq(q, 1, i - 1) \o SubSeq(q, i + 1, Len(q))

\* Whether the continuation of performAiAnalysis stores the hint.
appliesHint1(destroyed) == ~destroyed
appliesHint2(destroyed) == ~destroyed

\* A continuation that also clears the fruit list.
adviceSettlesClears ==
  \E i \in DOMAIN inflight, fetched \in SessionOutcomes :
    LET res == getSenseiAdvice(fetched)
        applies == IF variant = 1 THEN appliesHint1(isDestroyed) ELSE appliesHint2(isDestroyed)
    IN /\ mounted => Committed
       /\ inflight' = RemoveAt(inflight, i)
       /\ senseiHint' = IF applies THEN res.message ELSE senseiHint
       /\ priorityFruit' = IF applies THEN res.priorityFruit ELSE priorityFruit
       /\ isAiThinking' = FALSE
       /\ last' = [Step("adviceSettles", {}) EXCEPT !.threw = fetched.throws]
       /\ fruits' = <<>>
       /\ UNCHANGED <<variant, mounted, gameState, countdown, timeLeft, isDestroyed, gameActive,
                      captureRequestRef, scoreRef, livesRef, levelRef, lastAnalysisScore,
                      particles, xpPoints, bladeTrail, touchActive, timeScale,
                      hitstopTimers, effVars, fuel>>

\* A getSenseiAdvice call completes and performAiAnalysis resumes after its await.
adviceSettles ==
  \E i \in DOMAIN inflight, fetched \in SessionOutcomes :
    LET res == getSenseiAdvice(fetched)
        applies == IF variant = 1 THEN appliesHint1(isDestroyed) ELSE appliesHint2(isDestroyed)
    IN /\ mounted => Committed
       /\ inflight' = RemoveAt(inflight, i)
       /\ senseiHint' = IF applies THEN res.message ELSE senseiHint
       /\ priorityFruit' = IF applies THEN res.priorityFruit ELSE priorityFruit
       /\ isAiThinking' = FALSE
       /\ last' = [Step("adviceSettles", {}) EXCEPT !.threw = fetched.throws]
       /\ UNCHANGED <<variant, mounted, gameState, countdown, timeLeft, refVars, effVars, fuel>>


\* ------------------------------------------------------------ frames
\* What a frame draws: whether a fruit is due and its random numbers, and the
\* random numbers of the explosions.
NoSpawn == [due |-> FALSE, typeChance |-> 0, roll |-> 0, capture |-> FALSE]
SpawnDraws ==
  {NoSpawn} \cup
  (IF fuel.spawns > 0
   THEN {[due |-> TRUE, typeChance |-> r[1], roll |-> r[2], capture |-> c] :
           r \in SpawnRandoms, c \in IF variant = 1 THEN BOOLEAN ELSE {FALSE}}
   ELSE {})

HitDraws(touched) ==
  IF touched = {}
  THEN {[touched |-> {}, extra |-> 0, pattern |-> "none", dir |-> "right"]}
  ELSE [touched : {touched}, extra : {15}, pattern : {"alternate"}, dir : {"down"}]

FruitIds(fs) == {fs[i].id : i \in DOMAIN fs}
Sliced(fs) == {fs[i].id : i \in {j \in DOMAIN fs : fs[j].isSliced}}
Request(data, score) == [activeFruits |-> data, score |-> score]

\* onResults of the main effect (variant 1).  gameState and isAiThinking are the
\* values the effect captured.
onResults1 ==
  /\ variant = 1 /\ mounted /\ Committed
  /\ effGameState = "PLAYING"
  /\ fuel.frames > 0
  /\ \E handFound \in BOOLEAN, sp \in SpawnDraws :
       LET trail1 == IF handFound THEN pushTrail(bladeTrail, HandPoint) ELSE bladeTrail
           ts == IF timeScale < TS_ONE THEN timeScale + 6 ELSE timeScale
           fruits1 == IF sp.due
                      THEN spawnFruit(fruits, levelRef, sp.typeChance, sp.roll, fuel.spawns)
                      ELSE fruits
           capture1 == captureRequestRef \/ (sp.due /\ sp.capture)
           hittable == IF Len(trail1) >= 2 THEN FruitIds(fruits1) ELSE {}
       IN \E touched \in SUBSET hittable :
          \E in \in HitDraws(touched) :
            \E S \in {forEachFruit1([Sim EXCEPT !.fruits = fruits1, !.timeScale = ts,
                                                  !.capture = capture1], 1, in)} :
            LET fruits2 == updateFruits(S.fruits, ts, 120)
                calls == capture1 /\ ~effIsAiThinking
                starts == calls /\ analysisStarts(S.gameActive, isDestroyed)
            IN /\ starts => fuel.requests > 0
               /\ bladeTrail' = trail1
               /\ timeScale' = S.timeScale
               /\ fruits' = fruits2
               /\ xpPoints' = updateXp(S.xpPoints, ts, 50)
               /\ particles' = updateParticles1(S.particles, ts)
               /\ scoreRef' = S.score /\ livesRef' = S.lives /\ levelRef' = S.level
               /\ gameActive' = S.gameActive /\ gameState' = S.gameState
               /\ captureRequestRef' = IF calls THEN FALSE ELSE capture1
               /\ isAiThinking' = IF starts THEN TRUE ELSE isAiThinking
               /\ inflight' = IF starts
                              THEN Append(inflight, Request(activeData1(fruits2), S.score))
                              ELSE inflight
               /\ fuel' = [fuel EXCEPT !.frames = @ - 1,
                                       !.spawns = IF sp.due THEN @ - 1 ELSE @,
                                       !.requests = IF starts THEN @ - 1 ELSE @]
               /\ last' = [Step("onResults", touched) EXCEPT
                           !.resliced = Sliced(fruits1) \cap touched,
                           !.dispatched = starts,
                           !.ended = S.ended,
                           !.cues = S.cues]
               /\ UNCHANGED <<variant, mounted, countdown, timeLeft, senseiHint,
                              priorityFruit, isDestroyed, lastAnalysisScore, touchActive,
                              hitstopTimers, effVars>>

\* onResults of the main effect (variant 2).
onResults2 ==
  /\ variant = 2 /\ mounted /\ Committed
  /\ ~isDestroyed
  /\ fuel.frames > 0
  /\ \E handFound \in BOOLEAN, sp \in (IF gameActive THEN SpawnDraws ELSE {NoSpawn}) :
       LET trail1 == IF handFound THEN pushTrail(bladeTrail, HandPoint)
                     ELSE IF ~touchActive /\ Len(bladeTrail) > 0 THEN Tail(bladeTrail)
                     ELSE bladeTrail
           fruits1 == IF sp.due
                      THEN spawnFruit(fruits, levelRef, sp.typeChance, sp.roll, fuel.spawns)
                      ELSE fruits
           hittable == IF gameActive /\ Len(trail1) >= 2 THEN FruitIds(fruits1) ELSE {}
       IN \E touched \in SUBSET hittable :
          \E in \in HitDraws(touched) :
            \E C \in {IF gameActive
                      THEN checkCollisions([Sim EXCEPT !.fruits = fruits1], trail1, in)
                      ELSE Sim} :
            \E S \in {IF gameActive THEN updatePhysics(C) ELSE C} :
            LET calls == S.capture
                starts == calls /\ analysisStarts(S.gameActive, isDestroyed)
            IN /\ starts => fuel.requests > 0
               /\ bladeTrail' = trail1
               /\ timeScale' = S.timeScale
               /\ hitstopTimers' = S.hitstopTimers
               /\ fruits' = S.fruits
               /\ xpPoints' = S.xpPoints
               /\ particles' = S.particles
               /\ scoreRef' = S.score /\ livesRef' = S.lives /\ levelRef' = S.level
               /\ lastAnalysisScore' = S.lastAnalysisScore
               /\ gameActive' = S.gameActive /\ gameState' = S.gameState
               /\ captureRequestRef' = FALSE
               /\ isAiThinking' = IF starts THEN TRUE ELSE isAiThinking
               /\ inflight' = IF starts
                              THEN Append(inflight, Request(activeData2(S.fruits), S.score))
                              ELSE inflight
               /\ fuel' = [fuel EXCEPT !.frames = @ - 1,
                                       !.spawns = IF sp.due THEN @ - 1 ELSE @,
                                       !.requests = IF starts THEN @ - 1 ELSE @]
               /\ last' = [Step("onResults", touched) EXCEPT
                           !.resliced = Sliced(fruits1) \cap touched,
                           !.dispatched = starts,
                           !.ended = S.ended,
                           !.cues = S.cues]
               /\ UNCHANGED <<variant, mounted, countdown, timeLeft, senseiHint,
                              priorityFruit, isDestroyed, touchActive, effVars>>

\* ------------------------------------------------------------ specification
\* A session of variant 1 in its last second, after the third level was reached
\* and two bottles were hit; every list has drained.
LateSession ==
  /\ variant = 1
  /\ mounted = TRUE
  /\ gameState = "PLAYING" /\ countdown = Counting(0) /\ timeLeft = 1
  /\ senseiHint = INITIAL_HINT /\ isAiThinking = FALSE /\ priorityFruit = NULL
  /\ isDestroyed = FALSE /\ gameActive = TRUE /\ captureRequestRef = FALSE
  /\ scoreRef = 4400 /\ livesRef = 1 /\ levelRef = 3 /\ lastAnalysisScore = 0
  /\ fruits = <<>> /\ particles = <<>> /\ xpPoints = <<>>
  /\ bladeTrail = [i \in 1..BLADE_TRAIL_LIMIT |-> HandPoint]
  /\ touchActive = FALSE
  /\ timeScale = TS_ONE /\ hitstopTimers = 0
  /\ effGameState = "PLAYING" /\ effIsAiThinking = FALSE
  /\ effTimeLeft = GAME_DURATION /\ effCountdown = Counting(0)
  /\ inflight = <<>>
  /\ last = Step("init", {})

\* A session of variant 2 before its first timer tick, after four sweet mangoes
\* were sliced and two bottles were hit, and the analysis each mango requested
\* has settled; every list has drained.
EarlyStreak ==
  /\ variant = 2
  /\ mounted = TRUE
  /\ gameState = "PLAYING" /\ countdown = Counting(0) /\ timeLeft = GAME_DURATION
  /\ senseiHint = ADVICE /\ isAiThinking = FALSE /\ priorityFruit = NULL
  /\ isDestroyed = FALSE /\ gameActive = TRUE /\ captureRequestRef = FALSE
  /\ scoreRef = 600 /\ livesRef = 1 /\ levelRef = 3 /\ lastAnalysisScore = 600
  /\ fruits = <<>> /\ particles = <<>> /\ xpPoints = <<>>
  /\ bladeTrail = <<HandPoint>>
  /\ touchActive = FALSE
  /\ timeScale = TS_ONE /\ hitstopTimers = 0
  /\ effGameState = "PLAYING" /\ effIsAiThinking = FALSE
  /\ effTimeLeft = GAME_DURATION /\ effCountdown = Counting(0)
  /\ inflight = <<>>
  /\ last = Step("init", {})

Init ==
  /\ \/ \E v \in {1, 2} : Constructed(v)
     \/ LateSession
     \/ EarlyStreak
  /\ fuel = Fuel(MaxFrames, MaxSpawns, MaxRequests, MaxTicks)

Next ==
  \/ startCountdown
  \/ countdownTick
  \/ Commit
  \/ Unmount
  \/ timerTick1
  \/ timerTick2
  \/ hitstopTimeout
  \/ onResults1
  \/ onResults2
  \/ adviceSettles

Spec == Init /\ [][Next]_vars


\* ------------------------------------------------------------ collision tests
\* The tests run on pixel coordinates; here they run on an integer grid, and a
\* comparison of a distance with a radius is made on the squares, cleared of the
\* division by the segment length.
Pt(x, y) == [x |-> x, y |-> y]
Sq(n) == n * n

\* dx*dx + dy*dy
lineLenSq(p1, p2) == Sq(p2.x - p1.x) + Sq(p2.y - p1.y)
\* dy * f.x - dx * f.y + p2.x * p1.y - p2.y * p1.x
lineCross(p1, p2, f) ==
  (p2.y - p1.y) * f.x - (p2.x - p1.x) * f.y + p2.x * p1.y - p2.y * p1.x
\* (fx - prev.x) * (tip.x - prev.x) + (fy - prev.y) * (tip.y - prev.y)
segDot(p1, p2, f) == (f.x - p1.x) * (p2.x - p1.x) + (f.y - p1.y) * (p2.y - p1.y)

\* A test without its bounding box.
noBounds(p1, p2, f, r) == TRUE

\* f.x > Math.min(p1.x, p2.x) - r && f.x < Math.max(p1.x, p2.x) + r, and so for y
inBounds(p1, p2, f, r) ==
  /\ f.x > Min(p1.x, p2.x) - r /\ f.x < Max(p1.x, p2.x) + r
  /\ f.y > Min(p1.y, p2.y) - r /\ f.y < Max(p1.y, p2.y) + r

\* onResults (variant 1): skip a segment with lineLenSq < 8; the distance to the
\* line through p1 and p2 is less than radius * 1.25, and the centre is in bounds.
hitTest1(p1, p2, f, r) ==
  LET L == lineLenSq(p1, p2) IN
  /\ ~(L < 8)
  /\ 16 * Sq(lineCross(p1, p2, f)) < 25 * Sq(r) * L
  /\ inBounds(p1, p2, f, r)

\* Whether the distance from f to prev + clampT * (tip - prev) is below r, for a
\* segment of length > 0.
clampedWithin(p1, p2, f, r) ==
  LET L == lineLenSq(p1, p2)
      dot == segDot(p1, p2, f)
  IN IF dot <= 0 THEN lineLenSq(p1, f) < Sq(r)
     ELSE IF dot >= L THEN lineLenSq(p2, f) < Sq(r)
     ELSE lineLenSq(p1, f) * L - Sq(dot) < Sq(r) * L

\* checkCollisions (variant 2): t = dot / (speed * speed) is NaN for a segment of
\* length 0, and then so is dist, and dist < radius is false.
hitTest2(p1, p2, f, r) ==
  LET L == lineLenSq(p1, p2) IN
  IF L = 0 THEN FALSE ELSE clampedWithin(p1, p2, f, r)

\* onResults of src/unnamed/part_002: lineLenSq < 10 is skipped, the distance to
\* the line is less than the radius, and the centre is in bounds.
hitTest3(p1, p2, f, r) ==
  LET L == lineLenSq(p1, p2) IN
  /\ ~(L < 10)
  /\ Sq(lineCross(p1, p2, f)) < Sq(r) * L
  /\ inBounds(p1, p2, f, r)

\* checkCollisions of src/ARCHITECTURE.md: t = dot / (speed * speed || 1).
hitTestDoc(p1, p2, f, r) ==
  LET L == lineLenSq(p1, p2) IN
  IF L = 0 THEN lineLenSq(p1, f) < Sq(r) ELSE clampedWithin(p1, p2, f, r)

\* The grid: the segment starts in the middle, its end and the centre are anywhere.
GridMax == 8
Grid == {Pt(x, y) : x \in 0..GridMax, y \in 0..GridMax}
SegStarts == {Pt(3, 3)}
Radii == {2, 3}

Segment(p1, p2, f, r) == [p1 |-> p1, p2 |-> p2, f |-> f, r |-> r]

\* The component is as constructed; last holds the arguments and then the results.
InitGeo ==
  /\ Built(1) /\ particles = <<>>
  /\ fuel = Fuel(0, 0, 0, 0)
  /\ \E p1 \in SegStarts, p2 \in Grid, f \in Grid, r \in Radii :
       last = [op |-> "segment", seg |-> Segment(p1, p2, f, r)]

\* The test of each variant on the last segment of the trail and an unsliced fruit.
collide ==
  /\ last.op = "segment"
  /\ LET g == last.seg IN
     last' = [op |-> "collide", seg |-> g,
              hit1 |-> hitTest1(g.p1, g.p2, g.f, g.r),
              hit2 |-> hitTest2(g.p1, g.p2, g.f, g.r),
              hit3 |-> hitTest3(g.p1, g.p2, g.f, g.r),
              hitDoc |-> hitTestDoc(g.p1, g.p2, g.f, g.r)]
  /\ UNCHANGED <<variant, mounted, reactVars, refVars, effVars, inflight, fuel>>

NextGeo == collide
SpecGeo == InitGeo /\ [][NextGeo]_vars


\* ------------------------------------------------------------ particles alone
MaxBursts == 3

\* A full list late in a session of variant 1: what is left of a batch of 30
\* that is about to die, a batch of 45 ten frames younger and a bottle's batch
\* of 65 twenty frames younger, none of them waiting.
AgedList ==
  [i \in 1..MAX_PARTICLES |->
     [life |-> IF i <= 10 THEN 1000 ELSE IF i <= 55 THEN 31000 ELSE 61000, wait |-> 0]]

InitFx ==
  /\ \E v \in {1, 2} : Built(v)
  /\ particles \in {<<>>, AgedList}
  /\ fuel = Fuel(MaxBursts, 0, 0, 0)
  /\ last = [op |-> "init", count |-> 0, isBomb |-> FALSE, before |-> <<>>]

\* One call of createExplosion.
explode ==
  /\ fuel.frames > 0
  /\ \E isBomb \in BOOLEAN, extra \in ExplosionExtras, pattern \in WaitPatterns :
       /\ particles' = createExplosion(particles, isBomb, extra, pattern)
       /\ last' = [op |-> "createExplosion", count |-> (IF isBomb THEN 50 ELSE 30) + extra,
                   isBomb |-> isBomb, before |-> particles]
  /\ fuel' = [fuel EXCEPT !.frames = @ - 1]
  /\ UNCHANGED <<variant, mounted, reactVars, isDestroyed, gameActive, captureRequestRef,
                 scoreRef, livesRef, levelRef, lastAnalysisScore, fruits, xpPoints,
                 bladeTrail, touchActive, timeScale, hitstopTimers, effVars, inflight>>

\* The particle loop of one frame, at full speed or in a slow-down.
TimeScales == {5, TS_ONE}
age ==
  /\ fuel.frames > 0
  /\ \E ts \in TimeScales :
       particles' = IF variant = 1 THEN updateParticles1(particles, ts)
                    ELSE updateParticles2(particles, ts)
  /\ last' = [op |-> "age", count |-> 0, isBomb |-> FALSE, before |-> particles]
  /\ fuel' = [fuel EXCEPT !.frames = @ - 1]
  /\ UNCHANGED <<variant, mounted, reactVars, isDestroyed, gameActive, captureRequestRef,
                 scoreRef, livesRef, levelRef, lastAnalysisScore, fruits, xpPoints,
                 bladeTrail, touchActive, timeScale, hitstopTimers, effVars, inflight>>

NextFx == explode \/ age
SpecFx == InitFx /\ [][NextFx]_vars

\* ------------------------------------------------------------ the service alone
Screenshots == {"", "data:image/jpeg;base64,AAAA"}

InitSvc ==
  /\ Built(1) /\ particles = <<>>
  /\ fuel = Fuel(0, 0, 0, 0)
  /\ \E image \in Screenshots, net \in NetOutcomes, apiKey \in BOOLEAN, model \in ModelOutcomes :
       last = [op |-> "call", image |-> image, net |-> net, apiKey |-> apiKey, model |-> model]

\* One call of getSenseiAdvice of src/services/geminiService.ts.
advise ==
  /\ last.op = "call"
  /\ LET fetched == fetch(last.net, last.image, last.apiKey, last.model) IN
     last' = [op |-> "getSenseiAdvice", fetched |-> fetched, hint |-> getSenseiAdvice(fetched)]
  /\ UNCHANGED <<variant, mounted, reactVars, refVars, effVars, inflight, fuel>>

\* One call of getSenseiAdvice of src/unnamed/part_001.
adviseSdk ==
  /\ last.op = "call" /\ last.net = "delivers" /\ last.image # ""
  /\ last' = [op |-> "getSenseiAdviceSdk", model |-> last.model, apiKey |-> last.apiKey,
              hint |-> getSenseiAdviceSdk(last.apiKey, last.model)]
  /\ UNCHANGED <<variant, mounted, reactVars, refVars, effVars, inflight, fuel>>

NextSvc == advise \/ adviseSdk
SpecSvc == InitSvc /\ [][NextSvc]_vars


\* ------------------------------------------------------------ sessions alone
\* The phases of any number of sessions, with no frame delivered: the buttons,
\* the countdown, the renders and the one-second timers, which the browser goes
\* on firing and React goes on committing.
InitCycle ==
  /\ \E v \in {1, 2, 3} : Constructed(v)
  /\ fuel = Fuel(0, 0, 0, 0)

secondPasses1 == timerInterval1 /\ UNCHANGED fuel
secondPasses2 == timerInterval2 /\ UNCHANGED fuel

NextCycle ==
  \/ startCountdown
  \/ countdownTick
  \/ Commit
  \/ secondPasses1
  \/ secondPasses2

SpecCycle ==
  /\ InitCycle /\ [][NextCycle]_vars
  /\ WF_vars(countdownTick) /\ WF_vars(Commit)
  /\ WF_vars(secondPasses1) /\ WF_vars(secondPasses2)

\* ------------------------------------------------------------ the blade alone
MaxTrailFrames == 3
MaxMoves == 3

\* The positions a touch can report, which differ from the one of the hand, and
\* the report of an event for which the canvas has no rectangle.
TouchPoints == {2, 3}
NoTouch == 0

\* handleTouchStart of the touch effect, with the gameState the effect captured.
handleTouchStart ==
  /\ mounted /\ Committed
  /\ effGameState = "PLAYING"
  /\ touchActive' = TRUE
  /\ last' = Step("handleTouchStart", {})
  /\ UNCHANGED <<variant, mounted, reactVars, isDestroyed, gameActive, captureRequestRef,
                 scoreRef, livesRef, levelRef, lastAnalysisScore, fruits, particles,
                 xpPoints, bladeTrail, timeScale, hitstopTimers, effVars, inflight, fuel>>

\* handleTouchMove of the touch effect.
handleTouchMove ==
  /\ mounted /\ Committed
  /\ touchActive /\ effGameState = "PLAYING"
  /\ fuel.moves > 0
  /\ \E currentPos \in TouchPoints \cup {NoTouch} :
       bladeTrail' = IF currentPos = NoTouch THEN bladeTrail
                     ELSE pushTrail(bladeTrail, currentPos)
  /\ fuel' = [fuel EXCEPT !.moves = @ - 1]
  /\ last' = Step("handleTouchMove", {})
  /\ UNCHANGED <<variant, mounted, reactVars, isDestroyed, gameActive, captureRequestRef,
                 scoreRef, livesRef, levelRef, lastAnalysisScore, fruits, particles,
                 xpPoints, touchActive, timeScale, hitstopTimers, effVars, inflight>>

\* handleTouchEnd of the touch effect.
handleTouchEnd ==
  /\ mounted /\ Committed
  /\ touchActive' = FALSE
  /\ bladeTrail' = <<>>
  /\ last' = Step("handleTouchEnd", {})
  /\ UNCHANGED <<variant, mounted, reactVars, isDestroyed, gameActive, captureRequestRef,
                 scoreRef, livesRef, levelRef, lastAnalysisScore, fruits, particles,
                 xpPoints, timeScale, hitstopTimers, effVars, inflight, fuel>>

\* Sessions in PLAYING, one with a full trail and one with a single point, in
\* which no fruit is spawned.
InitTrail ==
  /\ LateSession \/ EarlyStreak
  /\ fuel = [frames |-> MaxTrailFrames, spawns |-> 0, requests |-> 0, ticks |-> 0,
             moves |-> MaxMoves]

NextTrail ==
  \/ handleTouchStart
  \/ handleTouchMove
  \/ handleTouchEnd
  \/ onResults1
  \/ onResults2

SpecTrail == InitTrail /\ [][NextTrail]_vars

\* ------------------------------------------------------------ a fruit that falls
MaxFallFrames == 12
FlightFrames == 91

\* The distance below the canvas at which the fruit loop removes a fruit, in px.
LowerBound == IF variant = 1 THEN 120 ELSE 100

\* Draws of roll, in 1/1000, that make spawnFruit choose a guava, a mango, a
\* pineapple and a sweet mango on the first level.
CategoryRolls == {0, 500, 900, 999}

\* A first session in which nothing was sliced and the first fruit is on its way
\* down, FlightFrames frames after it was spawned; when pending, the analysis
\* that the frame of the spawn requested has not completed.
InFlight(v, roll, pending) ==
  /\ variant = v
  /\ mounted = TRUE
  /\ gameState = "PLAYING" /\ countdown = Counting(0)
  /\ timeLeft = IF v = 1 THEN GAME_DURATION - 3 ELSE GAME_DURATION
  /\ senseiHint = INITIAL_HINT /\ isAiThinking = pending /\ priorityFruit = NULL
  /\ isDestroyed = FALSE /\ gameActive = TRUE /\ captureRequestRef = FALSE
  /\ scoreRef = 0 /\ livesRef = MAX_LIVES /\ levelRef = 1 /\ lastAnalysisScore = 0
  /\ fruits = <<flight(spawnFruit(<<>>, 1, 999, roll, 1)[1], FlightFrames)>>
  /\ particles = <<>> /\ xpPoints = <<>>
  /\ bladeTrail = <<>>
  /\ touchActive = FALSE
  /\ timeScale = TS_ONE /\ hitstopTimers = 0
  /\ effGameState = "PLAYING" /\ effIsAiThinking = FALSE
  /\ effTimeLeft = GAME_DURATION /\ effCountdown = Counting(0)
  /\ inflight = IF pending
                THEN <<Request(activeData1(<<flight(spawnFruit(<<>>, 1, 999, roll, 1)[1], 1)>>), 0)>>
                ELSE <<>>
  /\ last = Step("init", {})

InitFall ==
  /\ \E v \in {1, 2}, roll \in CategoryRolls :
       \E pending \in (IF v = 1 THEN BOOLEAN ELSE {FALSE}) : InFlight(v, roll, pending)
  /\ fuel = Fuel(MaxFallFrames, 0, MaxRequests, MaxTicks)

NextFall ==
  \/ onResults1
  \/ onResults2
  \/ timerTick1
  \/ timerTick2
  \/ Commit

\* Frames keep being delivered and renders keep being committed; nothing is
\* asked of the timers.
SpecFall ==
  /\ InitFall /\ [][NextFall]_vars
  /\ WF_vars(onResults1) /\ WF_vars(onResults2) /\ WF_vars(Commit)

\* ------------------------------------------------------------ advice that arrives
\* The sessions of SpecFall, in which the getSenseiAdvice calls complete.
NextAdvice ==
  \/ onResults1
  \/ onResults2
  \/ timerTick1
  \/ timerTick2
  \/ Commit
  \/ adviceSettles

SpecAdvice == InitFall /\ [][NextAdvice]_vars

\* ------------------------------------------------------------ the difficulty curve
MaxLevel == 30

\* Draws of typeChance, in 1/1000, on both sides of the thresholds of levels 3,
\* 4 and 23, and the extremes.
LevelChances == {0, 49, 50, 64, 65, 349, 350, 999}

InitCurve ==
  /\ Built(1) /\ particles = <<>>
  /\ fuel = Fuel(0, 0, 0, 0)
  /\ \E level \in 1..MaxLevel, typeChance \in LevelChances, roll \in CategoryRolls :
       last = [op |-> "level", level |-> level, typeChance |-> typeChance, roll |-> roll]

\* The spawn check of a frame and the spawnFruit it calls, at a level and at the
\* next one.
spawnAtLevel ==
  /\ last.op = "level"
  /\ last' = [op |-> "spawnAtLevel", level |-> last.level, typeChance |-> last.typeChance,
              spawnRate |-> spawnRate(last.level),
              nextRate |-> spawnRate(last.level + 1),
              threshold |-> bombThreshold(last.level),
              nextThreshold |-> bombThreshold(last.level + 1),
              type |-> spawnType(last.level, last.typeChance, last.roll)]
  /\ UNCHANGED <<variant, mounted, reactVars, refVars, effVars, inflight, fuel>>

NextCurve == spawnAtLevel
SpecCurve == InitCurve /\ [][NextCurve]_vars

\* ------------------------------------------------------------ at a level threshold
MaxThresholdFrames == 3

\* A session on the third level with a blade that is moving and the fruits fs
\* in the air.
ThirdLevel(v, score, lives, fs) ==
  /\ variant = v
  /\ mounted = TRUE
  /\ gameState = "PLAYING" /\ countdown = Counting(0) /\ timeLeft = GAME_DURATION \div 2
  /\ senseiHint = ADVICE /\ isAiThinking = FALSE /\ priorityFruit = NULL
  /\ isDestroyed = FALSE /\ gameActive = TRUE /\ captureRequestRef = FALSE
  /\ scoreRef = score /\ livesRef = lives /\ levelRef = 3
  /\ lastAnalysisScore = (IF v = 1 THEN 0 ELSE 600)
  /\ fruits = fs
  /\ particles = <<>> /\ xpPoints = <<>>
  /\ bladeTrail = <<HandPoint, HandPoint>>
  /\ touchActive = FALSE
  /\ timeScale = TS_ONE /\ hitstopTimers = 0
  /\ effGameState = "PLAYING" /\ effIsAiThinking = FALSE
  /\ effTimeLeft = GAME_DURATION \div 2 /\ effCountdown = Counting(0)
  /\ inflight = <<>>
  /\ last = Step("init", {})

\* The fruit spawnFruit makes on the third level from the draws d, k frames later.
Airborne(d, id, k) == flight(spawnFruit(<<>>, 3, d[1], d[2], id)[1], k)

\* A session that has just reached the third level, with the score at the
\* threshold of that level (3000 in variant 1, 600 in variant 2), all lives, and
\* a bottle and a guava in the air.
AtThreshold(v) ==
  ThirdLevel(v, IF v = 1 THEN 3000 ELSE 600, MAX_LIVES,
             <<Airborne(<<0, 0>>, 1, 20), Airborne(<<999, 0>>, 2, 10)>>)

InitThreshold ==
  /\ \E v \in {1, 2} : AtThreshold(v)
  /\ fuel = Fuel(MaxThresholdFrames, 0, MaxRequests, 0)

NextThreshold ==
  \/ onResults1
  \/ onResults2
  \/ hitstopTimeout

SpecThreshold == InitThreshold /\ [][NextThreshold]_vars

\* ------------------------------------------------------------ the order of the hits
\* Draws of (typeChance, roll) that make spawnFruit choose a bottle and each of
\* the other categories on the third level.
TypeDraws == {<<0, 0>>} \cup {<<999, r>> : r \in CategoryRolls}

\* Scores of the third level: its first, and 10 below the next level (4500 in
\* variant 1, 900 in variant 2).
ThirdLevelScores(v) == IF v = 1 THEN {3000, 4490} ELSE {600, 890}

Reverse(fs) == [i \in DOMAIN fs |-> fs[Len(fs) + 1 - i]]

InitOrder ==
  /\ \E v \in {1, 2}, lives \in 1..MAX_LIVES, d1 \in TypeDraws, d2 \in TypeDraws :
       \E score \in ThirdLevelScores(v) :
         ThirdLevel(v, score, lives, <<Airborne(d1, 1, 20), Airborne(d2, 2, 10)>>)
  /\ fuel = Fuel(0, 0, 0, 0)

\* What the forEach of a frame leaves of score, lives and level.
Outcome(S) == [score |-> S.score, lives |-> S.lives, level |-> S.level]

\* The collision loop of a frame whose segment hits both fruits, over the list
\* as it is and over the list in the opposite order.
hitBothWays ==
  /\ last.op = "init"
  /\ LET in == [touched |-> FruitIds(fruits), extra |-> 0, pattern |-> "none", dir |-> "right"]
         loop(S) == IF variant = 1 THEN forEachFruit1(S, 1, in)
                    ELSE checkCollisions(S, bladeTrail, in)
     IN last' = [op |-> "hitBothWays",
                 inOrder |-> Outcome(loop(Sim)),
                 reversed |-> Outcome(loop([Sim EXCEPT !.fruits = Reverse(fruits)]))]
  /\ UNCHANGED <<variant, mounted, reactVars, refVars, effVars, inflight, fuel>>

NextOrder == hitBothWays
SpecOrder == InitOrder /\ [][NextOrder]_vars

\* ------------------------------------------------------------ the handler alone
\* The requests /api/gemini is sent: any method, with or without a screenshot,
\* with or without API_KEY in the server's environment, and whatever the model
\* call comes to.
Methods == {"GET", "POST"}

InitApi ==
  /\ Built(1) /\ particles = <<>>
  /\ fuel = Fuel(0, 0, 0, 0)
  /\ \E method \in Methods, image \in Screenshots, apiKey \in BOOLEAN, model \in ModelOutcomes :
       last = [op |-> "request", method |-> method, image |-> image, apiKey |-> apiKey,
               model |-> model]

\* One call of handler.
serve ==
  /\ last.op = "request"
  /\ last' = [op |-> "handler", method |-> last.method, image |-> last.image,
              apiKey |-> last.apiKey, model |-> last.model,
              resp |-> handler(last.method, last.image, last.apiKey, last.model)]
  /\ UNCHANGED <<variant, mounted, reactVars, refVars, effVars, inflight, fuel>>

NextApi == serve
SpecApi == InitApi /\ [][NextApi]_vars

\* ------------------------------------------------------------ properties
\* C1: at most one advisory request is in flight at any time: a capture trigger
\* consumed while an earlier getSenseiAdvice call has not completed dispatches
\* no new call.
C1_OneInFlight == Len(inflight) <= 1

\* C2: an advisory response that arrives after the phase became GAMEOVER, or
\* after the component was destroyed, changes neither the hint text nor the
\* priority category.
C2_LateResponseDiscarded ==
  [][(last'.op = "adviceSettles" /\ (gameState = "GAMEOVER" \/ ~mounted))
       => (senseiHint' = senseiHint /\ priorityFruit' = priorityFruit)]_vars

\* C3: when the transport of an advisory call throws while the component is
\* mounted and playing, isAiThinking is reset to false and the displayed message
\* becomes the fixed fallback string.
C3_FALLBACK == "Sensei fetch failed."
C3_ThrowShowsFallback ==
  [][(last'.op = "adviceSettles" /\ last'.threw /\ mounted /\ gameState = "PLAYING")
       => (isAiThinking' = FALSE /\ senseiHint' = C3_FALLBACK)]_vars

\* C4: for every transport outcome the hint message getSenseiAdvice resolves to
\* is a non-empty string, and for every failed or malformed outcome (the fetch
\* throws, the status is not OK, the body is not JSON, the result is an empty
\* string or has no message) it is one of the fixed fallback strings.
C4_Fallbacks ==
  {"Sensei fetch failed.", "Sensei unavailable.", "No advice",
   "Sensei lost connection (Missing API Key).", "Sensei is observing your spirit.",
   "Your technique is evolving. Stay focused.", "Keep slicing!"}
C4_NoMessage(v) ==
  \/ v.tag = "string" /\ v.str = ""
  \/ v.tag = "object" /\ v.message \in {NULL, ""}
  \/ v.tag \in {"number", "null"}
C4_Failed ==
  IF last.op = "getSenseiAdvice"
  THEN \/ last.fetched.throws
       \/ ~(last.fetched.resp.status \in 200..299)
       \/ ~last.fetched.resp.json
       \/ C4_NoMessage(last.fetched.resp.value)
  ELSE \/ ~last.apiKey
       \/ last.model.throws
       \/ ~last.model.parses
       \/ C4_NoMessage(last.model.value)
C4_AlwaysAMessage ==
  last.op \in {"getSenseiAdvice", "getSenseiAdviceSdk"} =>
    /\ last.hint.message # NULL /\ last.hint.message # ""
    /\ C4_Failed => last.hint.message \in C4_Fallbacks

\* C5: in every reachable state lives is within 0..MAX_LIVES, also after a frame
\* whose segment hits several bottles while lives is 1.
C5_LivesInRange == livesRef \in 0..MAX_LIVES

\* C6: within one session (no startGame in between) the level never decreases
\* from one step to the next, whatever fruits and bottles are hit.
C6_LevelNeverDecreases == [][last'.op # "startGame" => levelRef' >= levelRef]_vars
\* A bottle's penalty took the score of variant 1 below the level's threshold.
C6_LevelKept ==
  /\ last.op = "onResults" /\ last.touched # {}
  /\ variant = 1 /\ levelRef > levelFor1(scoreRef)

\* C7: isSliced is write-once (a fruit that is sliced and still in the list is
\* sliced after every step), and a frame whose segment test succeeds only on
\* fruits that are sliced already changes neither score, lives nor level and adds
\* no popup and no particle.
C7_SlicedOnce ==
  [][/\ \A i \in DOMAIN fruits : \A j \in DOMAIN fruits' :
          (fruits[i].isSliced /\ fruits'[j].id = fruits[i].id) => fruits'[j].isSliced
     /\ (last'.op = "onResults" /\ last'.touched # {} /\ last'.resliced = last'.touched)
          => /\ scoreRef' = scoreRef /\ livesRef' = livesRef /\ levelRef' = levelRef
             /\ Len(xpPoints') <= Len(xpPoints)
             /\ Len(particles') <= Len(particles)]_vars
C7_Resliced ==
  last.op = "onResults" /\ last.resliced # {} /\ last.resliced = last.touched

\* C8: a fruit whose centre is on the line through P1 and P2 but not inside the
\* segment's bounding box inflated by the radius is not hit, in any of the three
\* collision tests.
C8_Outside(g) ==
  \/ g.f.x <= Min(g.p1.x, g.p2.x) - g.r \/ g.f.x >= Max(g.p1.x, g.p2.x) + g.r
  \/ g.f.y <= Min(g.p1.y, g.p2.y) - g.r \/ g.f.y >= Max(g.p1.y, g.p2.y) + g.r
C8_Collinear(g) ==
  (g.p2.x - g.p1.x) * (g.f.y - g.p1.y) = (g.p2.y - g.p1.y) * (g.f.x - g.p1.x)
C8_CollinearOutsideNoHit ==
  (last.op = "collide" /\ C8_Collinear(last.seg) /\ C8_Outside(last.seg))
    => (~last.hit1 /\ ~last.hit2 /\ ~last.hit3)
\* A segment long enough for every test, and a centre on its line beyond its end.
C8_FarOnTheLine ==
  /\ last.op = "collide" /\ C8_Collinear(last.seg) /\ C8_Outside(last.seg)
  /\ Sq(last.seg.p2.x - last.seg.p1.x) + Sq(last.seg.p2.y - last.seg.p1.y) >= 10

\* C9: a hit is registered if and only if the distance from the centre to the
\* closest point of the segment is less than the radius and the centre is inside
\* the segment's bounding box inflated by the radius.
C9_DistSq(a, b) == Sq(a.x - b.x) + Sq(a.y - b.y)
C9_Near(g) ==
  LET L == C9_DistSq(g.p1, g.p2)
      d == (g.f.x - g.p1.x) * (g.p2.x - g.p1.x) + (g.f.y - g.p1.y) * (g.p2.y - g.p1.y)
  IN IF L = 0 \/ d <= 0 THEN C9_DistSq(g.f, g.p1) < Sq(g.r)
     ELSE IF d >= L THEN C9_DistSq(g.f, g.p2) < Sq(g.r)
     ELSE C9_DistSq(g.f, g.p1) * L - Sq(d) < Sq(g.r) * L
C9_Expected(g) == C9_Near(g) /\ ~C8_Outside(g)
C9_HitIffNear ==
  last.op = "collide" =>
    /\ last.hit1 <=> C9_Expected(last.seg)
    /\ last.hit2 <=> C9_Expected(last.seg)

\* C10: the particle list never holds more than MAX_PARTICLES particles, and a
\* createExplosion that fills it beyond the cap removes exactly the oldest
\* particles: what is left of the old list is its end, in the same order,
\* followed by the new particles.
C10_Evicted == Max(0, Len(particles) + last'.count - MAX_PARTICLES)
C10_CapAndFifo ==
  [][/\ Len(particles') <= MAX_PARTICLES
     /\ last'.op = "createExplosion" =>
          /\ Len(particles') = Len(particles) + last'.count - C10_Evicted
          /\ SubSeq(particles', 1, Len(particles) - C10_Evicted)
               = SubSeq(particles, C10_Evicted + 1, Len(particles))
          /\ \A i \in (Len(particles) - C10_Evicted + 1)..Len(particles') :
               particles'[i].life = LIFE_ONE]_vars
C10_Overflowed ==
  /\ last.op = "createExplosion"
  /\ Len(last.before) > 0 /\ Len(last.before) + last.count > MAX_PARTICLES
  /\ Len(particles) = MAX_PARTICLES


\* C11: the phase changes only along START -> COUNTDOWN, COUNTDOWN -> PLAYING,
\* PLAYING -> GAMEOVER and GAMEOVER -> COUNTDOWN: only startCountdown enters
\* COUNTDOWN, only startGame enters PLAYING, only a timer tick or a frame enters
\* GAMEOVER, and a timer tick, a frame, a countdown tick or an advisory completion
\* in any other phase leaves the phase as it was.
C11_Edges ==
  {<<"START", "COUNTDOWN">>, <<"COUNTDOWN", "PLAYING">>,
   <<"PLAYING", "GAMEOVER">>, <<"GAMEOVER", "COUNTDOWN">>}
C11_LegalEdges ==
  /\ gameState # last.phase =>
       /\ <<last.phase, gameState>> \in C11_Edges
       /\ gameState = "COUNTDOWN" => last.op = "startCountdown"
       /\ gameState = "PLAYING" => last.op = "startGame"
       /\ gameState = "GAMEOVER" => last.op \in {"timerTick", "onResults"}
  /\ last.op \in {"countdownTick", "adviceSettles", "hitstopTimeout", "commit", "unmount"}
       => gameState = last.phase
\* A frame was delivered after the game was over.
C11_FrameAfterGameOver ==
  last.op = "onResults" /\ last.phase = "GAMEOVER" /\ gameState = "GAMEOVER"


\* C12: outside PLAYING no step but startGame changes score, lives, level, the
\* fruits or the particles, and a frame that takes the PLAYING -> GAMEOVER
\* transition leaves score, lives, level and the number of particles as they
\* were when it took the transition.
C12_FrozenOutsidePlaying ==
  [][/\ (gameState # "PLAYING" /\ last'.op # "startGame")
          => UNCHANGED <<scoreRef, livesRef, levelRef, fruits, particles>>
     /\ (last'.op = "onResults" /\ last'.ended # <<>>)
          => /\ scoreRef' = last'.ended[1].score
             /\ livesRef' = last'.ended[1].lives
             /\ levelRef' = last'.ended[1].level
             /\ Len(particles') <= last'.ended[1].particles]_vars


\* C13: a frame in PLAYING that hits an unsliced bottle while lives is 1 ends
\* with lives 0 and with the phase GAMEOVER.
C13_BottleHit ==
  \E i \in DOMAIN fruits' :
    fruits'[i].type = "bomb" /\ fruits'[i].id \in (last'.touched \ last'.resliced)
C13_LastLifeEndsSession ==
  [][(last'.op = "onResults" /\ gameState = "PLAYING" /\ livesRef = 1 /\ C13_BottleHit)
       => (livesRef' = 0 /\ gameState' = "GAMEOVER")]_vars


\* C14: a one-second tick in PLAYING either takes one second off a remaining
\* time that stays at or above 0, or ends the session with the remaining time
\* 0; so a session that starts with GAME_DURATION seconds is over after at most
\* GAME_DURATION + 1 ticks.
C14_TimerEndsSession ==
  [][(last'.op = "timerTick" /\ gameState = "PLAYING")
       => \/ gameState' = "GAMEOVER" /\ timeLeft' = 0
          \/ gameState' = "PLAYING" /\ timeLeft' = timeLeft - 1 /\ timeLeft' >= 0]_vars


\* C15: startGame runs only when the countdown has reached 0 in COUNTDOWN, and
\* from then until the render that hands the first PLAYING frame to the
\* simulation, score is 0, lives is MAX_LIVES, level is 1, the remaining time is
\* GAME_DURATION and there are no fruits, particles or popups.
C15_ResetAtStart ==
  /\ last.op = "startGame" =>
       last.phase = "COUNTDOWN" /\ countdown = Counting(0) /\ gameState = "PLAYING"
  /\ (gameState = "PLAYING" /\ effGameState # "PLAYING") =>
       /\ scoreRef = 0 /\ livesRef = MAX_LIVES /\ levelRef = 1 /\ timeLeft = GAME_DURATION
       /\ fruits = <<>> /\ particles = <<>> /\ xpPoints = <<>>
\* A session starts after an earlier one spawned a fruit.
C15_Restarted == last.op = "startGame" /\ fuel.spawns < MaxSpawns


\* C16: in GAMEOVER the restart command is available once the phase is
\* rendered, it moves the phase to COUNTDOWN with the countdown at
\* COUNTDOWN_FROM, and while countdown ticks keep occurring COUNTDOWN leads to
\* PLAYING, which is entered with the reset state; nothing limits the number of
\* repetitions.
C16_RestartLeadsToPlaying ==
  /\ []((gameState = "GAMEOVER" /\ Committed) => ENABLED startCountdown)
  /\ []((last.op = "startCountdown" /\ last.phase = "GAMEOVER")
          => (gameState = "COUNTDOWN" /\ countdown = Counting(COUNTDOWN_FROM)))
  /\ (gameState = "COUNTDOWN") ~> (gameState = "PLAYING" /\ last.op = "startGame"
                                    /\ scoreRef = 0 /\ livesRef = MAX_LIVES /\ levelRef = 1
                                    /\ timeLeft = GAME_DURATION /\ fruits = <<>>)
\* The restart command has acted in GAMEOVER, after a session that the timer ended.
C16_RestartedAfterGameOver ==
  last.op = "startCountdown" /\ last.phase = "GAMEOVER" /\ timeLeft < GAME_DURATION


\* C17: the blade trail never holds more than BLADE_TRAIL_LIMIT points; a touch
\* move or a frame with a hand appends its point as the last one and drops the
\* oldest point, and only that one, when the trail was full; a frame without a
\* hand drops at most the oldest point; a touch end empties the trail.
C17_Appended(p) ==
  bladeTrail' = (IF Len(bladeTrail) = BLADE_TRAIL_LIMIT THEN Tail(bladeTrail)
                 ELSE bladeTrail) \o <<p>>
C17_TrailBoundedFifo ==
  /\ [](Len(bladeTrail) <= BLADE_TRAIL_LIMIT)
  /\ [][/\ last'.op = "handleTouchMove" =>
             \/ bladeTrail' = bladeTrail
             \/ \E p \in TouchPoints : C17_Appended(p)
        /\ last'.op = "onResults" =>
             \/ C17_Appended(HandPoint)
             \/ bladeTrail' = bladeTrail
             \/ (variant = 2 /\ ~touchActive /\ bladeTrail # <<>> /\ bladeTrail' = Tail(bladeTrail))
        /\ last'.op = "handleTouchEnd" => bladeTrail' = <<>>
        /\ last'.op = "handleTouchStart" => bladeTrail' = bladeTrail]_vars
\* Two touch moves were appended to a full trail of hand points.
C17_FullTrailShifted ==
  /\ last.op = "handleTouchMove" /\ Len(bladeTrail) = BLADE_TRAIL_LIMIT
  /\ bladeTrail[BLADE_TRAIL_LIMIT] = 3 /\ bladeTrail[BLADE_TRAIL_LIMIT - 1] = 2
  /\ bladeTrail[1] = HandPoint


C19_CollectibleHitScores ==
  [][\A i \in DOMAIN fruits :
       (/\ last'.op = "onResults"
        /\ last'.touched \ last'.resliced = {fruits[i].id}
        /\ ~fruits[i].isSliced /\ fruits[i].type # "bomb")
       => LET pts == FRUIT_CONFIG[fruits[i].type].points IN
          /\ pts \in {10, 20, 50, 150}
          /\ scoreRef' = scoreRef + pts
          /\ \A j \in DOMAIN fruits' : fruits'[j].id = fruits[i].id => fruits'[j].isSliced
          /\ Len(xpPoints') <= Len(xpPoints) + 1
          /\ xpPoints' # <<>> /\ xpPoints'[Len(xpPoints')].value = pts]_vars
\* A sweet mango was sliced in the first variant, and is still in the list.
C19_SweetMangoSliced ==
  /\ variant = 1 /\ last.op = "onResults" /\ last.touched # {} /\ last.resliced = {}
  /\ scoreRef = 150 /\ fruits # <<>> /\ fruits[1].isSliced


\* C20: while a getSenseiAdvice call has not completed, and for as long as it
\* does not, a frame can be delivered in every rendered state of PLAYING, and
\* every frame delivered there runs the fruit loop: each fruit it leaves in the
\* list has moved.
C20_FramesNotBlocked ==
  /\ []((gameState = "PLAYING" /\ inflight # <<>> /\ mounted /\ Committed /\ fuel.frames > 0)
          => ENABLED (onResults1 \/ onResults2))
  /\ [][(last'.op = "onResults" /\ gameState = "PLAYING" /\ inflight # <<>>)
          => \A j \in DOMAIN fruits' :
               \E i \in DOMAIN fruits :
                 fruits'[j].id = fruits[i].id /\ fruits'[j].y # fruits[i].y]_vars


\* C21: the continuation of performAiAnalysis, whether getSenseiAdvice succeeded
\* or failed, changes nothing but the hint, the priority fruit and isAiThinking:
\* score, lives, level, phase, remaining time, fruits, particles and the trail
\* are as they were.
C21_ContinuationWritesAdviceOnly ==
  [][last'.op = "adviceSettles"
       => UNCHANGED <<scoreRef, livesRef, levelRef, gameState, timeLeft, fruits, particles,
                      xpPoints, bladeTrail, gameActive, timeScale>>]_vars
\* An analysis completed, and changed the hint, while a sliced fruit, its
\* particles and a trail were there.
C21_AdviceDuringPlay ==
  /\ last.op = "adviceSettles" /\ gameState = "PLAYING" /\ senseiHint # INITIAL_HINT
  /\ fruits # <<>> /\ particles # <<>> /\ bladeTrail # <<>> /\ scoreRef > 0


\* C22: the spawn interval at a level is max(300, 1100 - 60 * level): it is never
\* below 300, the next level's is not larger, and is smaller while the interval
\* is above 300.
C22_SpawnIntervalCurve ==
  last.op = "spawnAtLevel" =>
    /\ last.spawnRate = Max(300, 1100 - 60 * last.level)
    /\ last.spawnRate >= 300
    /\ last.nextRate <= last.spawnRate
    /\ last.spawnRate > 300 => last.nextRate < last.spawnRate
\* The last level above the floor: 320 ms, and 300 ms at the next.
C22_ReachesFloor ==
  last.op = "spawnAtLevel" /\ last.spawnRate = 320 /\ last.nextRate = 300

C25_LevelOfScore ==
  gameState = "PLAYING" =>
    levelRef = (IF variant = 1 THEN levelFor1(scoreRef) ELSE levelFor2(scoreRef))


\* C26: when the segment of a frame hits both fruits of the list, the score, the
\* lives and the level that the collision loop leaves are the same for either
\* order of the list.
C26_HitOrderCommutes ==
  last.op = "hitBothWays" => last.inOrder = last.reversed


\* C27: the list that a frame hands to getSenseiAdvice holds one entry, with the
\* category and the height, for every fruit of the list that is not sliced and
\* is not a bottle, and no entry for a bottle.
C27_Live == {i \in DOMAIN fruits : ~fruits[i].isSliced /\ fruits[i].type # "bomb"}
C27_RequestListsLiveCollectibles ==
  last.dispatched =>
    LET sent == inflight[Len(inflight)].activeFruits IN
    /\ Len(sent) = Cardinality(C27_Live)
    /\ \A j \in DOMAIN sent :
         /\ sent[j].type \notin {"bomb", FRUIT_CONFIG["bomb"].label}
         /\ \E i \in C27_Live :
              /\ sent[j].y = fruits[i].y
              /\ sent[j].type \in {fruits[i].type, FRUIT_CONFIG[fruits[i].type].label}


\* C28: when /api/gemini answers 200 with a result object that has a message,
\* the hint of getSenseiAdvice, which the component stores, carries the
\* priorityFruit of that result, and none (null) when the result has none.
C28_PriorityPropagated ==
  (/\ last.op = "getSenseiAdvice" /\ ~last.fetched.throws
   /\ last.fetched.resp.status = 200 /\ last.fetched.resp.json /\ last.fetched.resp.enveloped
   /\ last.fetched.resp.value.tag = "object" /\ Truthy(last.fetched.resp.value.message))
  => last.hint.priorityFruit = last.fetched.resp.value.priorityFruit


\* C29: a fruit that a frame slices is not, after the frame, where the fruit
\* loop alone would have put it with the speed the fruit loop alone would have
\* given it: the hit has changed its velocity.
C29_Ts ==
  IF variant = 1 THEN (IF timeScale < TS_ONE THEN timeScale + 6 ELSE timeScale) ELSE timeScale
C29_HitChangesVelocity ==
  [][\A i \in DOMAIN fruits, j \in DOMAIN fruits' :
       (/\ last'.op = "onResults"
        /\ fruits[i].id \in last'.touched \ last'.resliced /\ ~fruits[i].isSliced
        /\ fruits'[j].id = fruits[i].id)
       => /\ fruits'[j].isSliced
          /\ fruits'[j] # [moveFruit(fruits[i], C29_Ts) EXCEPT !.isSliced = TRUE]]_vars


\* C30: a call of createExplosion pushes between 20 and 45 particles for a fruit
\* and between 40 and 65 for a bottle, the latter more than any batch of a
\* fruit (more than 45); the particles of a batch are new, and those of a
\* bottle's batch have wait 0.
C30_Batch == SubSeq(particles, Len(particles) - last.count + 1, Len(particles))
C30_BatchSizes ==
  last.op = "createExplosion" =>
    /\ Len(particles) = Min(MAX_PARTICLES, Len(last.before) + last.count)
    /\ \A k \in DOMAIN C30_Batch : C30_Batch[k].life = LIFE_ONE
    /\ ~last.isBomb => last.count \in 20..45
    /\ last.isBomb => /\ last.count \in 40..65
                      /\ last.count > 45
                      /\ \A k \in DOMAIN C30_Batch : C30_Batch[k].wait = 0
\* The smallest batch of a bottle follows the largest batch of a fruit, some of
\* whose particles are waiting.
C30_BottleAfterFruit ==
  /\ last.op = "createExplosion" /\ last.isBomb /\ last.count = 50
  /\ Len(last.before) = 45 /\ \E k \in DOMAIN last.before : last.before[k].wait > 0


\* C31: in the second variant, a frame that takes the capture request of the
\* end of the session, which updatePhysics sets in that frame when the lives are
\* at 0 and the timer sets when the time is up, calls getSenseiAdvice for the
\* post-game.
C31_FinalAnalysisDispatched ==
  [][(/\ variant = 2 /\ last'.op = "onResults" /\ gameState' = "GAMEOVER"
      /\ (captureRequestRef \/ last'.ended # <<>>))
       => last'.dispatched]_vars


\* C32: the remaining time is never negative; startGame sets it to
\* GAME_DURATION; a one-second tick in PLAYING takes exactly 1 off it or ends
\* the session with it at 0; and it does not change from one GAMEOVER state to
\* the next.
C32_Countdown ==
  /\ [](timeLeft >= 0)
  /\ [][last'.op = "startGame" => timeLeft' = GAME_DURATION]_vars
  /\ [][(last'.op = "timerTick" /\ gameState = "PLAYING")
          => IF gameState' = "PLAYING" THEN timeLeft' = timeLeft - 1 ELSE timeLeft' = 0]_vars
  /\ [][(gameState = "GAMEOVER" /\ gameState' = "GAMEOVER") => timeLeft' = timeLeft]_vars


\* C33: isDestroyed is true only once the component is unmounted; so in every
\* rendered state of PLAYING of a mounted component a frame can be delivered
\* and runs the simulation step.
C33_DestroyedOnlyAfterUnmount ==
  /\ mounted => ~isDestroyed
  /\ (mounted /\ Committed /\ gameState = "PLAYING" /\ fuel.frames > 0 /\ fuel.requests > 0)
       => ENABLED (onResults1 \/ onResults2)


\* C34: while a getSenseiAdvice call is outstanding isAiThinking is true; put
\* the other way, when isAiThinking is false no call is outstanding.
C34_IndicatorAccurate == inflight # <<>> => isAiThinking


\* C35: soundManager.playGameOver is called once by the frame or the timer tick
\* that takes the session from PLAYING to GAMEOVER, however many bottles that
\* frame hits, and by no other frame or tick.
C35_OneGameOverCue ==
  [][last'.op \in {"onResults", "timerTick"}
       => last'.cues = (IF gameState = "PLAYING" /\ gameState' = "GAMEOVER" THEN 1 ELSE 0)]_vars


\* C36: the handler's response has status 405 when the method is not POST;
\* otherwise 400 when imageBase64 is missing; otherwise 500 when API_KEY is not
\* set; otherwise 500 when the model call throws and 200 when it returns, and
\* then the key result holds the parsed JSON value, or the raw text when the
\* text does not parse or parses to null.  Every response is JSON, and only the
\* 200 response has the key result.
C36_StatusLadder ==
  last.op = "handler" =>
    LET r == last.resp IN
    /\ r.json
    /\ r.status = (IF last.method # "POST" THEN 405
                   ELSE IF last.image = "" THEN 400
                   ELSE IF ~last.apiKey THEN 500
                   ELSE IF last.model.throws THEN 500
                   ELSE 200)
    /\ r.enveloped <=> r.status = 200
    /\ r.status = 200 =>
         r.value = (IF last.model.parses /\ last.model.value.tag # "null"
                    THEN last.model.value ELSE JString(last.model.raw))
\* A POST with a screenshot and a key whose model call returned text that is
\* not JSON.
C36_RawTextReturned ==
  /\ last.op = "handler" /\ last.method = "POST" /\ last.image # "" /\ last.apiKey
  /\ last.model = ModelText(PROSE)
  /\ last.resp.status = 200 /\ last.resp.value = JString(PROSE)


\* C37: the time scale is above 0 and at most 1.0 (TS_ONE, in units of 0.02)
\* in every state.
C37_TimeScaleInRange == timeScale > 0 /\ timeScale <= TS_ONE

=============================================================================
